---- MODULE Spec2Model ----
(***************************************************************************)
(* The transcript store adapter of functions/src/database.ts: the           *)
(* merge-writes on transcripts/{id}, the atomic paragraph append, and the   *)
(* batched deletion of the paragraphs sub-collection followed by the        *)
(* deletion of the root document.  The document store is the only shared    *)
(* state; every request to it is served atomically, and an invocation of    *)
(* deleteTranscript runs concurrently with the other operations.            *)
(***************************************************************************)
EXTENDS Integers, FiniteSets, Sequences, TLC

\* ------------------------------------------------------------------ bounds

\* Number of distinct identifiers the store can hand out for paragraphs.
MaxParagraphs == 2

\* Largest batchSize a direct call of deleteCollection is given.
MaxBatchSize == 2

\* Largest collection deleteCollection is observed on when it runs alone.
MaxDocuments == 5

\* deleteTranscript: await deleteCollection(paragraphsPath, 10)
TranscriptBatchSize == 10

\* --------------------------------------------------------- value domains

Ids == {"t1"}

ParagraphIds == 1..MaxParagraphs

BatchSizes == 1..MaxBatchSize

\* enums.ts is not among the sources; the states are those of the state
\* machine section of the specification.
ProgressType == {"Queued", "Analysing", "Transcribing", "Saving", "Done", "Error"}

Percents == {0, 50}

StartTimes == {1, 2}

Paragraphs == [startTime : StartTimes]

Seconds == {7}

Urls == {"gs://a"}

\* Error objects as serializeError sees them: a key may hold undefined.
Undefined == "undefined"

Errors == {[message |-> "boom"], [message |-> "boom", foo |-> Undefined]}

\* Field paths of the root document transcripts/{id}.
PROGRESS == "status.progress"

PERCENT == "status.percent"

ERROR == "status.error"

DURATION == "metadata.audioDuration"

PLAYBACK == "playbackGsUrl"

\* A function with an empty domain: a document without fields, an empty
\* collection, an update without fields.
Empty == [x \in {} |-> x]

\* ----------------------------------------------------------------- state

VARIABLES
    transcripts,  \* root documents: existing id -> (field path -> value)
    paragraphs,   \* id -> (existing paragraph id -> paragraph)
    pc,           \* id -> position of the deleteTranscript/deleteCollection call
    snapshot,     \* id -> document refs of the call's last query snapshot
    batchSize,    \* id -> batchSize of the call
    caller,       \* id -> "deleteTranscript" or "deleteCollection"
    settled,      \* id -> the calls of resolve and reject made by the call, in order
    lastOp,       \* the request or callback that ran last, and its outcome
    log           \* id -> what an observer of a call running alone has counted

vars == <<transcripts, paragraphs, pc, snapshot, batchSize, caller, settled, lastOp, log>>

store == <<transcripts, paragraphs>>

deleter == <<pc, snapshot, batchSize, caller, settled>>

\* op: the operation or callback; arg: what it was called with (for
\* addParagraph, what the store committed: <<>> when it committed nothing);
\* ok: whether the request succeeded.
Op(op, id, arg, ok) == [op |-> op, id |-> id, arg |-> arg, ok |-> ok]

\* ------------------------------------------------------ store primitives

\* DocumentReference.set(data) without {merge: true}: the document becomes
\* exactly the fields written.
OverwriteSet(docs, id, data) ==
    [i \in DOMAIN docs \cup {id} |->
        IF i = id THEN [f \in DOMAIN data.set \ data.delete |-> data.set[f]] ELSE docs[i]]

\* DocumentReference.set(data, {merge: true}): creates the document when it
\* is absent, overwrites the fields named in data.set, removes the fields
\* given as FieldValue.delete() (data.delete), keeps every other field.
MergeSet(docs, id, data) ==
    LET old == IF id \in DOMAIN docs THEN docs[id] ELSE Empty
        keep == (DOMAIN old \cup DOMAIN data.set) \ data.delete
        new == [f \in keep |-> IF f \in DOMAIN data.set THEN data.set[f] ELSE old[f]]
    IN  [i \in DOMAIN docs \cup {id} |-> IF i = id THEN new ELSE docs[i]]

\* An ITranscript object: the fields it sets, and the fields it holds
\* FieldValue.delete() for.
Transcript(set, delete) == [set |-> set, delete |-> delete]

\* DocumentReference.update(data): a write to an absent document changes
\* nothing.
updateExisting(id, transcript) ==
    IF id \in DOMAIN transcripts THEN MergeSet(transcripts, id, transcript) ELSE transcripts

updateTranscript(id, transcript) == MergeSet(transcripts, id, transcript)

\* ---------------------------------------------------------- merge-writes

\* setProgress re-arming the counter for Analysing alone.
setProgressAnalysingOnly(progress) ==
    IF progress = "Analysing"
    THEN [set |-> [f \in {PROGRESS, PERCENT} |-> IF f = PROGRESS THEN progress ELSE 0],
          delete |-> {}]
    ELSE IF progress = "Done"
    THEN [set |-> [f \in {PROGRESS} |-> progress], delete |-> {PERCENT}]
    ELSE [set |-> [f \in {PROGRESS} |-> progress], delete |-> {}]

\* setProgress reporting a finished transcript as percent 0 instead of
\* removing the field.
setProgressDoneZero(progress) ==
    IF progress \in {"Analysing", "Saving", "Done"}
    THEN [set |-> [f \in {PROGRESS, PERCENT} |-> IF f = PROGRESS THEN progress ELSE 0],
          delete |-> {}]
    ELSE [set |-> [f \in {PROGRESS} |-> progress], delete |-> {}]

setProgressTranscript(progress) ==
    IF progress \in {"Analysing", "Saving"}
    THEN Transcript([f \in {PROGRESS, PERCENT} |-> IF f = PROGRESS THEN progress ELSE 0], {})
    ELSE IF progress = "Done"
    THEN Transcript([f \in {PROGRESS} |-> progress], {PERCENT})
    ELSE Transcript([f \in {PROGRESS} |-> progress], {})

\* A merge-write that reaches the store.  (One that fails, the store being
\* unavailable, leaves the store as it was and is not a step of the model.)
MergeWrite(op, id, arg, transcript) ==
    /\ transcripts' = updateTranscript(id, transcript)
    /\ lastOp' = Op(op, id, arg, TRUE)
    /\ UNCHANGED <<paragraphs, deleter>>

setProgress(transcriptId, progress) ==
    MergeWrite("setProgress", transcriptId, progress, setProgressTranscript(progress))

\* setPercent moving the transcript to Transcribing as well.
setPercentAndProgress(percent) ==
    [set |-> [f \in {PROGRESS, PERCENT} |-> IF f = PROGRESS THEN "Transcribing" ELSE percent],
     delete |-> {}]

setPercentTranscript(percent) == Transcript([f \in {PERCENT} |-> percent], {})

setPercent(transcriptId, percent) ==
    MergeWrite("setPercent", transcriptId, percent, setPercentTranscript(percent))

setDurationTranscript(seconds) == Transcript([f \in {DURATION} |-> seconds], {})

setDuration(transcriptId, seconds) ==
    MergeWrite("setDuration", transcriptId, seconds, setDurationTranscript(seconds))

\* serializeError, then the removal of the keys that hold undefined.
serializedError(error) ==
    [k \in {k \in DOMAIN error : error[k] # Undefined} |-> error[k]]

\* The error written together with the transition of progress to Error.
errorOccuredWithProgress(error) ==
    Transcript([f \in {ERROR, PROGRESS} |->
                    IF f = ERROR THEN [k \in {k \in DOMAIN error : error[k] # Undefined} |-> error[k]]
                    ELSE "Error"], {})

errorOccuredTranscript(error) == Transcript([f \in {ERROR} |-> serializedError(error)], {})

errorOccured(transcriptId, error) ==
    MergeWrite("errorOccured", transcriptId, error, errorOccuredTranscript(error))

setPlaybackGsUrlTranscript(url) == Transcript([f \in {PLAYBACK} |-> url], {})

setPlaybackGsUrl(id, url) ==
    MergeWrite("setPlaybackGsUrl", id, url, setPlaybackGsUrlTranscript(url))

\* ------------------------------------------------------- atomic batches

\* The operations a WriteBatch stages.
Create(id, paragraphId, data) ==
    [type |-> "create", id |-> id, paragraphId |-> paragraphId, data |-> data]

Update(id, field, value) == [type |-> "update", id |-> id, field |-> field, value |-> value]

Delete(id, paragraphId) == [type |-> "delete", id |-> id, paragraphId |-> paragraphId]

\* A store that checks the updates alone: a create of a document that
\* exists is accepted (and replaces it), as batch.set would be.
AcceptedNoCreateCheck(batch) ==
    \A i \in 1..Len(batch) : batch[i].type = "update" => batch[i].id \in DOMAIN transcripts

\* A store that checks the creates alone: an update of a document that
\* does not exist is accepted.
AcceptedNoUpdateCheck(batch) ==
    \A i \in 1..Len(batch) :
        batch[i].type = "create" => batch[i].paragraphId \notin DOMAIN paragraphs[batch[i].id]

\* The store accepts a batch when every precondition holds: a create needs
\* its document to be absent, an update needs its document to exist, a
\* delete needs nothing.
Accepted(batch) ==
    \A i \in 1..Len(batch) :
        /\ batch[i].type = "create" => batch[i].paragraphId \notin DOMAIN paragraphs[batch[i].id]
        /\ batch[i].type = "update" => batch[i].id \in DOMAIN transcripts

\* The root documents after one staged operation.
ApplyTranscripts(docs, op) ==
    IF op.type = "update"
    THEN [docs EXCEPT ![op.id] =
            [f \in DOMAIN docs[op.id] \cup {op.field} |->
                IF f = op.field THEN op.value ELSE docs[op.id][f]]]
    ELSE docs

\* The paragraph collections after one staged operation.
ApplyParagraphs(cols, op) ==
    IF op.type = "create"
    THEN [cols EXCEPT ![op.id] =
            [p \in DOMAIN cols[op.id] \cup {op.paragraphId} |->
                IF p = op.paragraphId THEN op.data ELSE cols[op.id][p]]]
    ELSE IF op.type = "delete"
    THEN [cols EXCEPT ![op.id] =
            [p \in DOMAIN cols[op.id] \ {op.paragraphId} |-> cols[op.id][p]]]
    ELSE cols

RECURSIVE CommittedTranscripts(_, _)
CommittedTranscripts(docs, batch) ==
    IF batch = <<>> THEN docs
    ELSE CommittedTranscripts(ApplyTranscripts(docs, Head(batch)), Tail(batch))

RECURSIVE CommittedParagraphs(_, _)
CommittedParagraphs(cols, batch) ==
    IF batch = <<>> THEN cols
    ELSE CommittedParagraphs(ApplyParagraphs(cols, Head(batch)), Tail(batch))

\* WriteBatch.commit(): all of the batch, or none of it.
Commit(batch, ok) ==
    /\ transcripts' = IF ok THEN CommittedTranscripts(transcripts, batch) ELSE transcripts
    /\ paragraphs' = IF ok THEN CommittedParagraphs(paragraphs, batch) ELSE paragraphs

\* --------------------------------------------------------- addParagraph

\* addParagraph creating the paragraph without the update of the percent.
addParagraphCreateOnly(transcriptId, paragraphId, paragraph, percent) ==
    <<Create(transcriptId, paragraphId, paragraph)>>

addParagraphBatch(transcriptId, paragraphId, paragraph, percent) ==
    <<Create(transcriptId, paragraphId, paragraph), Update(transcriptId, PERCENT, percent)>>

\* The identifier is generated by the store client; the commit is the one
\* request the call makes.  It fails when the store is unavailable or does
\* not accept the batch.
addParagraph(transcriptId, paragraph, percent) ==
    \E paragraphId \in ParagraphIds, available \in BOOLEAN :
        LET batch == addParagraphBatch(transcriptId, paragraphId, paragraph, percent)
            ok == available /\ Accepted(batch)
        IN  /\ Commit(batch, ok)
            /\ lastOp' = Op("addParagraph", transcriptId,
                            IF ok THEN <<paragraphId, paragraph, percent>> ELSE <<>>, ok)
            /\ UNCHANGED deleter

\* ------------------------------------------- deleteTranscript and below

Min(S) == CHOOSE x \in S : \A y \in S : x <= y

\* The elements of S in ascending order.
RECURSIVE Ascending(_)
Ascending(S) == IF S = {} THEN <<>> ELSE <<Min(S)>> \o Ascending(S \ {Min(S)})

\* The first n elements of a sequence.
Limit(seq, n) == SubSeq(seq, 1, IF Len(seq) < n THEN Len(seq) ELSE n)

Range(seq) == {seq[i] : i \in 1..Len(seq)}

\* The query without .limit(batchSize): every document of the collection.
queryWithoutLimit(id, size) == DOMAIN paragraphs[id]

\* collectionRef.orderBy("__name__").limit(batchSize), evaluated by the
\* store: the references of the first batchSize documents by name.
query(id, size) == Range(Limit(Ascending(DOMAIN paragraphs[id]), size))

\* snapshot.docs.forEach(doc => batch.delete(doc.ref))
deleteBatch(id, docs) == [i \in 1..Cardinality(docs) |-> Delete(id, Ascending(docs)[i])]

Finished == {"idle", "resolved", "done", "rejected", "failed"}

\* A call may start when no other call for the same transcript is running.
MayStart(id) == pc[id] \in Finished /\ (pc[id] = "resolved" => caller[id] = "deleteCollection")

\* deleteCollection builds the query and deleteQueryBatch sends it.
Start(id, who, size) ==
    /\ MayStart(id)
    /\ pc' = [pc EXCEPT ![id] = "query"]
    /\ snapshot' = [snapshot EXCEPT ![id] = {}]
    /\ batchSize' = [batchSize EXCEPT ![id] = size]
    /\ caller' = [caller EXCEPT ![id] = who]
    /\ settled' = [settled EXCEPT ![id] = <<>>]
    /\ lastOp' = Op(who, id, size, TRUE)
    /\ UNCHANGED store

deleteTranscript(transcriptId) == Start(transcriptId, "deleteTranscript", TranscriptBatchSize)

deleteCollection(id, size) == Start(id, "deleteCollection", size)

\* query.get(): the store evaluates the query, or the request fails and
\* .catch(reject) rejects the promise.
QueryGet(id) ==
    /\ pc[id] = "query"
    /\ \E ok \in BOOLEAN :
        /\ pc' = [pc EXCEPT ![id] = IF ok THEN "snapshot" ELSE "rejected"]
        /\ snapshot' = [snapshot EXCEPT ![id] = IF ok THEN query(id, batchSize[id]) ELSE {}]
        /\ settled' = [settled EXCEPT ![id] = IF ok THEN @ ELSE Append(@, "reject")]
        /\ lastOp' = Op("QueryGet", id, 0, ok)
    /\ UNCHANGED <<store, batchSize, caller>>

\* The second .then with resolve() but without the return after it: the
\* next round is scheduled all the same.
QueryThenWithoutReturn(id) ==
    /\ pc[id] = "snapshot"
    /\ pc' = [pc EXCEPT ![id] = IF Cardinality(snapshot[id]) = 0 THEN "tick" ELSE "commit"]
    /\ settled' = [settled EXCEPT ![id] =
                        IF Cardinality(snapshot[id]) = 0 THEN Append(@, "resolve") ELSE @]
    /\ lastOp' = Op("QueryThen", id, 0, TRUE)
    /\ UNCHANGED <<store, snapshot, batchSize, caller>>

\* .then(snapshot => ...): an empty snapshot yields 0, and the second .then
\* resolves the promise; otherwise the deletes are staged and committed.
QueryThen(id) ==
    /\ pc[id] = "snapshot"
    /\ pc' = [pc EXCEPT ![id] = IF Cardinality(snapshot[id]) = 0 THEN "resolved" ELSE "commit"]
    /\ settled' = [settled EXCEPT ![id] =
                        IF Cardinality(snapshot[id]) = 0 THEN Append(@, "resolve") ELSE @]
    /\ lastOp' = Op("QueryThen", id, 0, TRUE)
    /\ UNCHANGED <<store, snapshot, batchSize, caller>>

\* batch.commit() of the deletes, or its failure and .catch(reject).
BatchCommit(id) ==
    /\ pc[id] = "commit"
    /\ \E ok \in BOOLEAN :
        /\ Commit(deleteBatch(id, snapshot[id]), ok)
        /\ pc' = [pc EXCEPT ![id] = IF ok THEN "committed" ELSE "rejected"]
        /\ snapshot' = [snapshot EXCEPT ![id] = IF ok THEN snapshot[id] ELSE {}]
        /\ settled' = [settled EXCEPT ![id] = IF ok THEN @ ELSE Append(@, "reject")]
        /\ lastOp' = Op("BatchCommit", id, 0, ok)
    /\ UNCHANGED <<batchSize, caller>>

\* .then(() => snapshot.size), then .then(numDeleted => ...): resolve on 0,
\* otherwise schedule the next round with process.nextTick.
CommitThen(id) ==
    /\ pc[id] = "committed"
    /\ pc' = [pc EXCEPT ![id] = IF Cardinality(snapshot[id]) = 0 THEN "resolved" ELSE "tick"]
    /\ snapshot' = [snapshot EXCEPT ![id] = {}]
    /\ settled' = [settled EXCEPT ![id] =
                        IF Cardinality(snapshot[id]) = 0 THEN Append(@, "resolve") ELSE @]
    /\ lastOp' = Op("CommitThen", id, 0, TRUE)
    /\ UNCHANGED <<store, batchSize, caller>>

\* The next round scheduled without waiting for batch.commit().
NextTickBeforeCommit(id) ==
    /\ pc[id] \in {"commit", "tick"}
    /\ pc' = [pc EXCEPT ![id] = "query"]
    /\ lastOp' = Op("NextTick", id, 0, TRUE)
    /\ UNCHANGED <<store, snapshot, batchSize, caller, settled>>

\* The nextTick callback: deleteQueryBatch again, which sends the query.
NextTick(id) ==
    /\ pc[id] = "tick"
    /\ pc' = [pc EXCEPT ![id] = "query"]
    /\ lastOp' = Op("NextTick", id, 0, TRUE)
    /\ UNCHANGED <<store, snapshot, batchSize, caller, settled>>

\* deleteTranscript going on to the root document whether deleteCollection
\* resolved or was rejected.
ResumeAfterRejection(id) ==
    /\ pc[id] \in {"resolved", "rejected"}
    /\ caller[id] = "deleteTranscript"
    /\ pc' = [pc EXCEPT ![id] = "rootDelete"]
    /\ lastOp' = Op("Resume", id, 0, TRUE)
    /\ UNCHANGED <<store, snapshot, batchSize, caller, settled>>

\* deleteTranscript resumes after await deleteCollection(...) and sends the
\* delete of the root document.
Resume(id) ==
    /\ pc[id] = "resolved"
    /\ caller[id] = "deleteTranscript"
    /\ pc' = [pc EXCEPT ![id] = "rootDelete"]
    /\ lastOp' = Op("Resume", id, 0, TRUE)
    /\ UNCHANGED <<store, snapshot, batchSize, caller, settled>>

\* The documents without transcripts/{id}.
Without(docs, id) == [i \in DOMAIN docs \ {id} |-> docs[i]]

\* db.doc(`transcripts/${transcriptId}`).delete(), or its failure.
RootDelete(id) ==
    /\ pc[id] = "rootDelete"
    /\ \E ok \in BOOLEAN :
        /\ transcripts' = IF ok THEN Without(transcripts, id) ELSE transcripts
        /\ pc' = [pc EXCEPT ![id] = IF ok THEN "done" ELSE "failed"]
        /\ lastOp' = Op("RootDelete", id, 0, ok)
    /\ UNCHANGED <<paragraphs, snapshot, batchSize, caller, settled>>

\* ------------------------------------------------------------- reads

getTranscript(transcriptId) == transcripts[transcriptId]

\* orderBy("startTime"): document p comes no later than document q; the
\* store orders documents of equal startTime by name.
Before(col, p, q) ==
    \/ col[p].startTime < col[q].startTime
    \/ col[p].startTime = col[q].startTime /\ p <= q

\* The names of the documents in the order of the query.
RECURSIVE OrderBy(_, _)
OrderBy(col, names) ==
    IF names = {} THEN <<>>
    ELSE LET first == CHOOSE p \in names : \A q \in names : Before(col, p, q)
         IN  <<first>> \o OrderBy(col, names \ {first})

\* getParagraphs without .orderBy("startTime"): the documents come by name.
getParagraphsByName(transcriptId) ==
    [i \in 1..Cardinality(DOMAIN paragraphs[transcriptId]) |->
        paragraphs[transcriptId][Ascending(DOMAIN paragraphs[transcriptId])[i]]]

\* querySnapshot.forEach(doc => paragraphs.push(doc.data()))
getParagraphs(transcriptId) ==
    [i \in 1..Cardinality(DOMAIN paragraphs[transcriptId]) |->
        paragraphs[transcriptId][OrderBy(paragraphs[transcriptId],
                                         DOMAIN paragraphs[transcriptId])[i]]]

\* A call of getParagraphs: one query, answered from the store as it is.
getParagraphsCall(transcriptId) ==
    /\ lastOp' = Op("getParagraphs", transcriptId, getParagraphs(transcriptId), TRUE)
    /\ UNCHANGED <<store, deleter>>

Exists(id) == id \in DOMAIN transcripts

Has(id, field) == Exists(id) /\ field \in DOMAIN transcripts[id]

\* ------------------------------------------------------------- behaviour

\* What the observer of a call has counted: the documents in the collection
\* when the call was made, the sizes of the delete batches committed, and
\* the queries that returned no document.
NoLog == [n |-> 0, batches |-> <<>>, empty |-> 0]

Init ==
    /\ transcripts = Empty
    /\ paragraphs = [id \in Ids |-> Empty]
    /\ pc = [id \in Ids |-> "idle"]
    /\ snapshot = [id \in Ids |-> {}]
    /\ batchSize = [id \in Ids |-> 0]
    /\ caller = [id \in Ids |-> "none"]
    /\ settled = [id \in Ids |-> <<>>]
    /\ lastOp = Op("init", "t1", 0, TRUE)
    /\ log = [id \in Ids |-> NoLog]

\* The operations, and the steps of a deleteTranscript call, in any order.
\* (The observer's log is kept for a call that runs alone, below.)
Next ==
    \E id \in Ids :
        \/ (\E progress \in ProgressType : setProgress(id, progress)) /\ UNCHANGED log
        \/ (\E percent \in Percents : setPercent(id, percent)) /\ UNCHANGED log
        \/ (\E seconds \in Seconds : setDuration(id, seconds)) /\ UNCHANGED log
        \/ (\E error \in Errors : errorOccured(id, error)) /\ UNCHANGED log
        \/ (\E url \in Urls : setPlaybackGsUrl(id, url)) /\ UNCHANGED log
        \/ (\E paragraph \in Paragraphs, percent \in Percents :
                addParagraph(id, paragraph, percent)) /\ UNCHANGED log
        \/ deleteTranscript(id) /\ UNCHANGED log
        \/ QueryGet(id) /\ UNCHANGED log
        \/ QueryThen(id) /\ UNCHANGED log
        \/ BatchCommit(id) /\ UNCHANGED log
        \/ CommitThen(id) /\ UNCHANGED log
        \/ NextTick(id) /\ UNCHANGED log
        \/ Resume(id) /\ UNCHANGED log
        \/ RootDelete(id) /\ UNCHANGED log

Spec == Init /\ [][Next]_vars

\* deleteCollection called for itself, with a batchSize of its caller's
\* choice, on the paragraphs of an existing transcript, while paragraphs
\* are being appended.
InitCollection ==
    /\ transcripts = [id \in Ids |-> [f \in {PROGRESS} |-> "Transcribing"]]
    /\ paragraphs = [id \in Ids |-> Empty]
    /\ pc = [id \in Ids |-> "idle"]
    /\ snapshot = [id \in Ids |-> {}]
    /\ batchSize = [id \in Ids |-> 0]
    /\ caller = [id \in Ids |-> "none"]
    /\ settled = [id \in Ids |-> <<>>]
    /\ lastOp = Op("init", "t1", 0, TRUE)
    /\ log = [id \in Ids |-> NoLog]

NextCollection ==
    \E id \in Ids :
        \/ (\E size \in BatchSizes : deleteCollection(id, size)) /\ UNCHANGED log
        \/ QueryGet(id) /\ UNCHANGED log
        \/ QueryThen(id) /\ UNCHANGED log
        \/ BatchCommit(id) /\ UNCHANGED log
        \/ CommitThen(id) /\ UNCHANGED log
        \/ NextTick(id) /\ UNCHANGED log
        \/ (\E paragraph \in Paragraphs, percent \in Percents :
                addParagraph(id, paragraph, percent)) /\ UNCHANGED log

SpecCollection == InitCollection /\ [][NextCollection]_vars

\* Paragraphs are appended to an existing transcript, deleted by
\* deleteCollection, and read back.
NextParagraphs ==
    \/ NextCollection
    \/ \E id \in Ids : getParagraphsCall(id) /\ UNCHANGED log

SpecParagraphs == InitCollection /\ [][NextParagraphs]_vars

\* deleteCollection running alone, with a batchSize of its caller's choice,
\* on a collection of up to MaxDocuments documents that nobody else writes
\* to; a query or a commit may fail.  The observer counts as the call goes.
Documents == 1..MaxDocuments

InitAlone ==
    /\ transcripts = Empty
    /\ paragraphs \in {[id \in Ids |-> [p \in docs |-> [startTime |-> 1]]] : docs \in SUBSET Documents}
    /\ pc = [id \in Ids |-> "idle"]
    /\ snapshot = [id \in Ids |-> {}]
    /\ batchSize = [id \in Ids |-> 0]
    /\ caller = [id \in Ids |-> "none"]
    /\ settled = [id \in Ids |-> <<>>]
    /\ lastOp = Op("init", "t1", 0, TRUE)
    /\ log = [id \in Ids |-> NoLog]

Size(id) == Cardinality(DOMAIN paragraphs[id])

NextAlone ==
    \E id \in Ids :
        \/ /\ \E size \in BatchSizes : deleteCollection(id, size)
           /\ log' = [log EXCEPT ![id] = [n |-> Size(id), batches |-> <<>>, empty |-> 0]]
        \/ /\ QueryGet(id)
           /\ log' = [log EXCEPT ![id].empty =
                        IF lastOp'.ok /\ snapshot'[id] = {} THEN @ + 1 ELSE @]
        \/ QueryThen(id) /\ UNCHANGED log
        \/ /\ BatchCommit(id)
           /\ log' = [log EXCEPT ![id].batches =
                        IF lastOp'.ok THEN Append(@, Size(id) - Size(id)') ELSE @]
        \/ CommitThen(id) /\ UNCHANGED log
        \/ NextTick(id) /\ UNCHANGED log

SpecAlone == InitAlone /\ [][NextAlone]_vars

\* ------------------------------------------------------------- claims

\* The paragraphs a step adds to transcripts/{id}/paragraphs.
Added(id) == DOMAIN paragraphs'[id] \ DOMAIN paragraphs[id]

\* The step is a call of op for id.
Called(op, id) == lastOp'.op = op /\ lastOp'.id = id

\* C1: addParagraph is atomic.  A step adds a paragraph P to
\* transcripts/id/paragraphs only as the commit of an addParagraph(id, P,
\* percent) call, and that same step leaves status.percent = percent; a call
\* whose commit succeeds does both, a call whose commit fails changes
\* neither the paragraphs nor the root documents.
AddParagraphAtomic ==
    [][\A id \in Ids :
        /\ Added(id) # {} => Called("addParagraph", id) /\ lastOp'.ok
        /\ Called("addParagraph", id) /\ lastOp'.ok =>
            /\ Added(id) = {lastOp'.arg[1]}
            /\ paragraphs'[id][lastOp'.arg[1]] = lastOp'.arg[2]
            /\ id \in DOMAIN transcripts'
            /\ PERCENT \in DOMAIN transcripts'[id]
            /\ transcripts'[id][PERCENT] = lastOp'.arg[3]
        /\ Called("addParagraph", id) /\ ~lastOp'.ok => UNCHANGED store]_vars

\* An addParagraph call has committed: its paragraph is in the collection
\* and status.percent is the percent of the call.
AddParagraphCommitted ==
    /\ lastOp.op = "addParagraph"
    /\ lastOp.ok
    /\ lastOp.arg[1] \in DOMAIN paragraphs[lastOp.id]
    /\ paragraphs[lastOp.id][lastOp.arg[1]] = lastOp.arg[2]
    /\ Has(lastOp.id, PERCENT)
    /\ transcripts[lastOp.id][PERCENT] = 50

\* C2: right after setProgress(id, s) with s Analysing or Saving, the
\* document has status.progress = s and status.percent = 0.
SetProgressResetsPercent ==
    lastOp.op = "setProgress" /\ lastOp.arg \in {"Analysing", "Saving"} =>
        /\ Has(lastOp.id, PROGRESS)
        /\ getTranscript(lastOp.id)[PROGRESS] = lastOp.arg
        /\ Has(lastOp.id, PERCENT)
        /\ getTranscript(lastOp.id)[PERCENT] = 0

\* setProgress(id, Saving) has just run on a transcript that has paragraphs
\* (so its percent had been set by addParagraph).
SetProgressSavingRan ==
    /\ lastOp.op = "setProgress"
    /\ lastOp.arg = "Saving"
    /\ paragraphs[lastOp.id] # Empty
    /\ Has(lastOp.id, PERCENT)

\* C3: right after setProgress(id, Done), the document has
\* status.progress = Done and no status.percent field.
SetProgressDoneRemovesPercent ==
    lastOp.op = "setProgress" /\ lastOp.arg = "Done" =>
        /\ Has(lastOp.id, PROGRESS)
        /\ getTranscript(lastOp.id)[PROGRESS] = "Done"
        /\ ~Has(lastOp.id, PERCENT)

\* setProgress(id, Done) has just run on a transcript with paragraphs and
\* the other fields set.
SetProgressDoneRan ==
    /\ lastOp.op = "setProgress"
    /\ lastOp.arg = "Done"
    /\ paragraphs[lastOp.id] # Empty
    /\ Has(lastOp.id, DURATION)
    /\ Has(lastOp.id, PLAYBACK)

\* The step leaves the field of transcripts/{id} as it was: present with
\* the same value, or absent.
Untouched(id, field) ==
    /\ Has(id, field) <=> Has(id, field)'
    /\ Has(id, field) => transcripts'[id][field] = transcripts[id][field]

\* C4: setProgress(id, s) with s Queued, Transcribing or Error leaves
\* status.percent as it was, and setProgress with any s leaves status.error,
\* metadata.audioDuration, playbackGsUrl and the paragraphs as they were.
SetProgressFrame ==
    [][\A id \in Ids : Called("setProgress", id) =>
        /\ lastOp'.arg \in {"Queued", "Transcribing", "Error"} => Untouched(id, PERCENT)
        /\ Untouched(id, ERROR)
        /\ Untouched(id, DURATION)
        /\ Untouched(id, PLAYBACK)
        /\ paragraphs' = paragraphs]_vars

\* setProgress(id, Error) has just run on a transcript that holds every
\* other field and a paragraph.
SetProgressErrorRan ==
    /\ lastOp.op = "setProgress"
    /\ lastOp.arg = "Error"
    /\ Has(lastOp.id, PERCENT)
    /\ Has(lastOp.id, ERROR)
    /\ Has(lastOp.id, DURATION)
    /\ Has(lastOp.id, PLAYBACK)
    /\ paragraphs[lastOp.id] # Empty

\* C5 (the part a finite run decides): at the moment the promise of
\* deleteCollection resolves, the collection holds no documents.
ResolvesOnEmptyCollection ==
    \A id \in Ids :
        lastOp.op \in {"QueryThen", "CommitThen"} /\ lastOp.id = id /\ pc[id] = "resolved" =>
            paragraphs[id] = Empty

\* C6: when deleteTranscript(id) completes successfully, the paragraphs of
\* id and the root document are absent, and the root delete was sent after
\* a query of the paragraphs returned no documents.
DeleteTranscriptLeavesNothing ==
    \A id \in Ids :
        lastOp.op = "RootDelete" /\ lastOp.id = id /\ lastOp.ok =>
            /\ paragraphs[id] = Empty
            /\ ~Exists(id)
            /\ snapshot[id] = {}

\* C7: no paragraph outlives its parent: if transcripts/id/paragraphs holds
\* a document, the root document transcripts/id exists.
NoOrphanParagraph == \A id \in Ids : paragraphs[id] # Empty => Exists(id)

\* C8: a transcript whose status.progress is Done has no status.percent.
DoneHasNoPercent ==
    \A id \in Ids :
        Has(id, PROGRESS) /\ transcripts[id][PROGRESS] = "Done" => ~Has(id, PERCENT)

\* C9: a transcript that has a status.error field has status.progress Error.
ErrorOnlyInErrorState ==
    \A id \in Ids :
        Has(id, ERROR) => Has(id, PROGRESS) /\ transcripts[id][PROGRESS] = "Error"

\* C10: once status.progress is Error, no step changes it to another value.
ErrorIsTerminal ==
    [][\A id \in Ids :
        Has(id, PROGRESS) /\ transcripts[id][PROGRESS] = "Error" =>
            Has(id, PROGRESS)' /\ transcripts'[id][PROGRESS] = "Error"]_vars

\* C11: setPercent(id, p) sets status.percent to p and leaves
\* status.progress, every other field and the paragraphs as they were; and
\* calling it again right away with the same p would leave the store as the
\* first call left it.
SetPercentOnlyPercentIdempotent ==
    [][\A id \in Ids : Called("setPercent", id) =>
        /\ Has(id, PERCENT)'
        /\ transcripts'[id][PERCENT] = lastOp'.arg
        /\ Untouched(id, PROGRESS)
        /\ Untouched(id, ERROR)
        /\ Untouched(id, DURATION)
        /\ Untouched(id, PLAYBACK)
        /\ paragraphs' = paragraphs
        /\ (updateTranscript(lastOp.id, setPercentTranscript(lastOp.arg)) = transcripts)']_vars

\* setPercent(id, 50) has just run on a transcript that has a progress, an
\* error and a paragraph.
SetPercentRan ==
    /\ lastOp.op = "setPercent"
    /\ lastOp.arg = 50
    /\ Has(lastOp.id, PROGRESS)
    /\ Has(lastOp.id, ERROR)
    /\ paragraphs[lastOp.id] # Empty

\* The number of places of the sequence that hold the value.
Count(seq, value) == Cardinality({i \in 1..Len(seq) : seq[i] = value})

\* The sequence holds every paragraph of the collection, as often as the
\* collection holds it.
HoldsAll(seq, col) ==
    /\ Len(seq) = Cardinality(DOMAIN col)
    /\ \A paragraph \in Paragraphs :
        Count(seq, paragraph) = Cardinality({p \in DOMAIN col : col[p] = paragraph})

\* C12 as stated: getParagraphs(id) returns all paragraphs of the
\* transcript, each startTime strictly smaller than the next.
GetParagraphsStrictlyAscending ==
    lastOp.op = "getParagraphs" =>
        /\ HoldsAll(lastOp.arg, paragraphs[lastOp.id])
        /\ \A i, j \in 1..Len(lastOp.arg) :
            i < j => lastOp.arg[i].startTime < lastOp.arg[j].startTime

\* C12 as amended: getParagraphs(id) returns all paragraphs of the
\* transcript, no startTime greater than the next (paragraphs of equal
\* startTime are adjacent).
GetParagraphsAscending ==
    lastOp.op = "getParagraphs" =>
        /\ HoldsAll(lastOp.arg, paragraphs[lastOp.id])
        /\ \A i, j \in 1..Len(lastOp.arg) :
            i < j => lastOp.arg[i].startTime <= lastOp.arg[j].startTime

\* getParagraphs has just returned two paragraphs whose order by name is
\* the reverse of their order by startTime.
GetParagraphsReordered ==
    /\ lastOp.op = "getParagraphs"
    /\ Len(lastOp.arg) = 2
    /\ DOMAIN paragraphs[lastOp.id] = {1, 2}
    /\ paragraphs[lastOp.id][1].startTime > paragraphs[lastOp.id][2].startTime

\* C13: paragraphs are append-only.  In every step, a paragraph that exists
\* either stays with the content it has, or is removed by a delete batch of
\* deleteTranscript/deleteCollection; no merge-write, no addParagraph and
\* no other step changes or removes it.
ParagraphsAppendOnly ==
    [][\A id \in Ids : \A p \in DOMAIN paragraphs[id] :
        \/ p \in DOMAIN paragraphs'[id] /\ paragraphs'[id][p] = paragraphs[id][p]
        \/ /\ p \notin DOMAIN paragraphs'[id]
           /\ Called("BatchCommit", id)
           /\ lastOp'.ok
           /\ p \in snapshot[id]]_vars

\* An addParagraph call has just committed into a collection that already
\* held a paragraph with another content.
AppendedToOthers ==
    /\ lastOp.op = "addParagraph"
    /\ lastOp.ok
    /\ \E p \in DOMAIN paragraphs[lastOp.id] :
        p # lastOp.arg[1] /\ paragraphs[lastOp.id][p] # lastOp.arg[2]

RECURSIVE Sum(_)
Sum(seq) == IF seq = <<>> THEN 0 ELSE Head(seq) + Sum(Tail(seq))

\* The least number of batches of the size that hold n documents.
Ceil(n, size) == (n + size - 1) \div size

\* C14: with no concurrent writer, a deleteCollection(path, batchSize) call
\* on n documents commits batches of min(batchSize, remaining) documents
\* each; when it resolves it has committed exactly ceil(n / batchSize) of
\* them and then seen exactly one query return no document, the collection
\* is empty, and a query that returns no document is followed by nothing
\* but the resolution.
BatchesAsCounted ==
    \A id \in Ids : caller[id] = "deleteCollection" =>
        LET batches == log[id].batches
            remaining(i) == log[id].n - Sum(SubSeq(batches, 1, i - 1))
        IN  /\ \A i \in 1..Len(batches) :
                batches[i] = IF batchSize[id] < remaining(i) THEN batchSize[id] ELSE remaining(i)
            /\ pc[id] = "resolved" =>
                /\ Len(batches) = Ceil(log[id].n, batchSize[id])
                /\ log[id].empty = 1
                /\ paragraphs[id] = Empty
            /\ log[id].empty = 0 \/
                /\ log[id].empty = 1
                /\ pc[id] = "resolved" \/ (pc[id] = "snapshot" /\ snapshot[id] = {})

\* deleteCollection(path, 2) on 5 documents has resolved after batches of
\* 2, 2 and 1 documents.
FiveByTwo ==
    \E id \in Ids :
        /\ pc[id] = "resolved"
        /\ batchSize[id] = 2
        /\ log[id].n = 5
        /\ log[id].batches = <<2, 2, 1>>
        /\ log[id].empty = 1

\* The step takes the call for id to position to from elsewhere.
Enters(id, to) == pc'[id] = to /\ pc[id] # to

\* C15: the batches of one deleteCollection call are strictly sequential.
\* The query of a round is sent only when the call starts or, for a later
\* round, from the nextTick callback, which is scheduled only after the
\* commit of the round before has succeeded and removed the documents of
\* its snapshot; a commit is sent only for the snapshot its query returned.
BatchesSequential ==
    [][\A id \in Ids :
        /\ Enters(id, "query") =>
            \/ pc[id] = "tick" /\ Called("NextTick", id)
            \/ pc[id] \in Finished /\ Called(caller'[id], id)
        /\ Enters(id, "tick") => pc[id] = "committed"
        /\ Enters(id, "committed") =>
            /\ pc[id] = "commit"
            /\ Called("BatchCommit", id) /\ lastOp'.ok
            /\ snapshot[id] \cap DOMAIN paragraphs'[id] = {}
        /\ Enters(id, "commit") => pc[id] = "snapshot" /\ snapshot[id] # {}
        /\ Enters(id, "snapshot") => pc[id] = "query"]_vars

\* The query of a second round has been sent, after a batch was committed.
SecondRoundQueried ==
    \E id \in Ids :
        /\ pc[id] = "query"
        /\ lastOp.op = "NextTick"
        /\ caller[id] = "deleteCollection"

\* C16: errorOccured(id, error) writes only status.error.  The step leaves
\* status.progress, status.percent, metadata.audioDuration, playbackGsUrl
\* and the paragraphs as they were, and status.error holds the serialized
\* error: the progress after the call is the progress before it.
ErrorOccuredFrame ==
    [][\A id \in Ids : Called("errorOccured", id) =>
        /\ Untouched(id, PROGRESS)
        /\ Untouched(id, PERCENT)
        /\ Untouched(id, DURATION)
        /\ Untouched(id, PLAYBACK)
        /\ paragraphs' = paragraphs
        /\ Has(id, ERROR)' /\ transcripts'[id][ERROR] = serializedError(lastOp'.arg)]_vars

\* errorOccured has just run on a transcript that is being transcribed,
\* holds a percentage and has a paragraph.
ErrorOccuredRan ==
    \E id \in Ids :
        /\ lastOp.op = "errorOccured" /\ lastOp.id = id
        /\ Has(id, ERROR)
        /\ Has(id, PROGRESS) /\ transcripts[id][PROGRESS] = "Transcribing"
        /\ Has(id, PERCENT)
        /\ DOMAIN paragraphs[id] # {}

\* C17: a failed query or batch commit of deleteCollection rejects the
\* promise and changes no document; a rejected call takes no further step
\* (its position changes only when a new call starts), the delete of the
\* root document is sent only after deleteCollection resolved, and the
\* root document is removed only by that delete: after a failed
\* deleteTranscript the root document is as it was.
FailureRejects ==
    [][\A id \in Ids :
        /\ (Called("QueryGet", id) \/ Called("BatchCommit", id)) /\ ~lastOp'.ok =>
            /\ pc'[id] = "rejected"
            /\ settled'[id] = <<"reject">>
            /\ store' = store
        /\ pc[id] = "rejected" =>
            /\ pc'[id] = "rejected" \/ (Called("deleteTranscript", id) /\ pc'[id] = "query")
            /\ DOMAIN paragraphs[id] \subseteq DOMAIN paragraphs'[id]
            /\ Exists(id) => Exists(id)'
        /\ Enters(id, "rootDelete") => pc[id] = "resolved"
        /\ Exists(id) /\ ~Exists(id)' =>
            pc[id] = "rootDelete" /\ Called("RootDelete", id) /\ lastOp'.ok]_vars

\* The batch commit of a deleteTranscript has just failed: the call is
\* rejected, the root document and the paragraph are still there.
DeleteTranscriptFailed ==
    \E id \in Ids :
        /\ lastOp.op = "BatchCommit" /\ lastOp.id = id /\ ~lastOp.ok
        /\ caller[id] = "deleteTranscript"
        /\ pc[id] = "rejected"
        /\ Exists(id)
        /\ DOMAIN paragraphs[id] # {}

\* C18: addParagraph(id, P, percent) on a transcript whose root document
\* is absent fails as a whole: the call is refused and the step creates no
\* paragraph and no root document.
AddParagraphNeedsRoot ==
    [][\A id \in Ids : Called("addParagraph", id) /\ ~Exists(id) =>
        /\ ~lastOp'.ok
        /\ paragraphs' = paragraphs
        /\ transcripts' = transcripts]_vars

\* addParagraph has just been refused on a transcript that deleteTranscript
\* removed.
AddParagraphAfterDelete ==
    \E id \in Ids :
        /\ lastOp.op = "addParagraph" /\ lastOp.id = id /\ ~lastOp.ok
        /\ pc[id] = "done"
        /\ ~Exists(id)
        /\ DOMAIN paragraphs[id] = {}

MergeWrites == {"setProgress", "setPercent", "setDuration", "setPlaybackGsUrl", "errorOccured"}

\* C19: the merge-writes are upserts.  setProgress, setPercent,
\* setDuration, setPlaybackGsUrl or errorOccured for an id whose root
\* document is absent succeeds and creates transcripts/{id} holding the
\* fields written and no other; so a transcript that deleteTranscript
\* removed can reappear.
MergeWriteUpserts ==
    [][\A id \in Ids : lastOp'.op \in MergeWrites /\ lastOp'.id = id /\ ~Exists(id) =>
        LET doc == transcripts'[id]
            arg == lastOp'.arg
        IN  /\ Exists(id)' /\ lastOp'.ok
            /\ Called("setProgress", id) =>
                /\ doc[PROGRESS] = arg
                /\ DOMAIN doc = IF arg \in {"Analysing", "Saving"} THEN {PROGRESS, PERCENT}
                                ELSE {PROGRESS}
            /\ Called("setPercent", id) => DOMAIN doc = {PERCENT} /\ doc[PERCENT] = arg
            /\ Called("setDuration", id) => DOMAIN doc = {DURATION} /\ doc[DURATION] = arg
            /\ Called("setPlaybackGsUrl", id) => DOMAIN doc = {PLAYBACK} /\ doc[PLAYBACK] = arg
            /\ Called("errorOccured", id) => DOMAIN doc = {ERROR}]_vars

\* After deleteTranscript removed the transcript, a setPercent has brought
\* the root document back with the percentage alone.
Reappeared ==
    \E id \in Ids :
        /\ pc[id] = "done"
        /\ lastOp.op = "setPercent" /\ lastOp.id = id
        /\ Exists(id)
        /\ DOMAIN transcripts[id] = {PERCENT}

\* The positions of a call that has not settled yet.
Running == {"query", "snapshot", "commit", "committed", "tick"}

\* C20: each deleteCollection call settles its promise exactly once.  A
\* call that is still running has invoked neither resolve nor reject and
\* has a next step; a call that resolved has invoked resolve once and
\* reject never, one that was rejected has invoked reject once and resolve
\* never; and a settled call sends no query and no batch: it takes no
\* step at all until a new call starts.
SettlesOnce ==
    [][\A id \in Ids :
        /\ Len(settled'[id]) <= 1
        /\ pc'[id] \in Running => settled'[id] = <<>>
        /\ pc'[id] \in Running =>
                (ENABLED (QueryGet(id) \/ QueryThen(id) \/ BatchCommit(id)
                            \/ CommitThen(id) \/ NextTick(id)))'
        /\ pc'[id] = "resolved" <=> settled'[id] = <<"resolve">>
        /\ pc'[id] = "rejected" <=> settled'[id] = <<"reject">>
        /\ settled[id] # <<>> =>
            \/ pc'[id] = pc[id] /\ settled'[id] = settled[id]
                 /\ lastOp'.op \notin {"QueryGet", "QueryThen", "BatchCommit", "CommitThen", "NextTick"}
            \/ Called("deleteCollection", id) /\ settled'[id] = <<>>]_vars

\* A call has resolved after a committed batch, and addParagraph has
\* committed since without the settled call taking a step.
SettledAndQuiet ==
    \E id \in Ids :
        /\ pc[id] = "resolved"
        /\ settled[id] = <<"resolve">>
        /\ lastOp.op = "addParagraph" /\ lastOp.ok
        /\ DOMAIN paragraphs[id] # {}

====
